---------------------------- MODULE Spec2Model ----------------------------
(***************************************************************************)
(* Aletheia: the code-acceptance pipeline (core/safety.py), the async job  *)
(* manager (core/async_utils.py) and the optimisation dispatcher           *)
(* (core/engine.py), as state machines.                                    *)
(*                                                                         *)
(* Submitted source text is represented by what ast.parse makes of it:     *)
(* whether it parses, and the import / call / attribute nodes of its tree  *)
(* in source order, each import with its nesting depth.  A dotted module   *)
(* name is the sequence of its segments (os.path is <<"os", "path">>).     *)
(* Text answered by the remote model is a sequence of fragments.           *)
(***************************************************************************)
EXTENDS Integers, Sequences, FiniteSets, TLC

(***************************************************************************)
(* Bounds of the model.                                                    *)
(***************************************************************************)
MaxNodes == 2
MaxDepth == 1
MaxDispatchNodes == 1
NumJobs == 4
MaxPermits == 2
NumDispatch == 2
NumCpuJobs == 3
MaxCpuWorkers == 2

(***************************************************************************)
(* Policy literals of core/safety.py.                                      *)
(***************************************************************************)
AllowedLibrariesWithOs ==
    {"numpy", "pandas", "jax", "math", "datetime", "random", "json", "re",
     "collections", "itertools", "functools", "os"}

ALLOWED_LIBRARIES ==
    {"numpy", "pandas", "jax", "math", "datetime", "random", "json", "re",
     "collections", "itertools", "functools"}

BannedModules == {"os", "sys", "subprocess", "shutil", "pickle"}

BannedCalls == {"exec", "eval", "open", "globals", "locals", "__import__"}

BannedAttributes == {"__import__", "__subclasses__"}

RemovedBuiltins == {"open", "eval", "exec", "__import__", "compile"}

(***************************************************************************)
(* The sources the model submits.                                          *)
(***************************************************************************)
NoModule == <<>>

ModuleNames == {<<"os">>, <<"os", "path">>, <<"numpy">>, <<"requests">>}

Depths == 0..MaxDepth

NodesOver(names) ==
    [kind : {"Import"}, name : names, depth : Depths]
      \cup [kind : {"ImportFrom"}, name : names \cup {NoModule}, depth : Depths]
      \cup [kind : {"Call"}, name : {<<"eval">>, <<"print">>}, depth : {0}]
      \cup [kind : {"Attribute"}, name : {<<"__subclasses__">>, <<"shape">>}, depth : {0}]

NodeSet == NodesOver(ModuleNames)

SeqsUpTo(S, n) == UNION {[1..k -> S] : k \in 0..n}

Unparseable == [parses |-> FALSE, nodes |-> <<>>]

SourcesUpTo(n) ==
    {[parses |-> TRUE, nodes |-> ns] : ns \in SeqsUpTo(NodeSet, n)} \cup {Unparseable}

Sources == SourcesUpTo(MaxNodes)

GateModuleNames == ModuleNames \cup {<<m>> : m \in BannedModules}

GateSources ==
    {[parses |-> TRUE, nodes |-> ns] : ns \in SeqsUpTo(NodesOver(GateModuleNames), MaxNodes)}
      \cup {Unparseable}

(***************************************************************************)
(* Text helpers: str.join, str.split('.')[0], str.strip, str.upper, `in'.  *)
(***************************************************************************)
TopLevelPkg(name) == Head(name)

Whitespace == {" ", "\n"}

UpperOf(frag) ==
    CASE frag = "block" -> "BLOCK"
      [] frag = "safe" -> "SAFE"
      [] frag = "heavy_math" -> "HEAVY_MATH"
      [] frag = "sql" -> "SQL"
      [] OTHER -> frag

Upper(text) == [i \in 1..Len(text) |-> UpperOf(text[i])]

RECURSIVE LStrip(_)
LStrip(text) ==
    IF text # <<>> /\ Head(text) \in Whitespace THEN LStrip(Tail(text)) ELSE text

RECURSIVE RStrip(_)
RStrip(text) ==
    IF text # <<>> /\ text[Len(text)] \in Whitespace
    THEN RStrip(SubSeq(text, 1, Len(text) - 1))
    ELSE text

Strip(text) == RStrip(LStrip(text))

Contains(needle, text) ==
    \E i \in 1..Len(text) : text[i] = needle

(***************************************************************************)
(* SecurityVisitor and static_analysis_check.                              *)
(***************************************************************************)
VisitNodeNoImportFrom(node) ==
    CASE node.kind = "Import" ->
           IF Len(node.name) = 1 /\ node.name[1] \in BannedModules
           THEN <<<<"Banned import", node.name>>>> ELSE <<>>
      [] node.kind = "ImportFrom" -> <<>>
      [] node.kind = "Call" ->
           IF node.name[1] \in BannedCalls
           THEN <<<<"Banned function call", node.name>>>> ELSE <<>>
      [] node.kind = "Attribute" ->
           IF node.name[1] \in BannedAttributes
           THEN <<<<"Banned attribute access", node.name>>>> ELSE <<>>

VisitNode(node) ==
    CASE node.kind = "Import" ->
           IF Len(node.name) = 1 /\ node.name[1] \in BannedModules
           THEN <<<<"Banned import", node.name>>>> ELSE <<>>
      [] node.kind = "ImportFrom" ->
           IF Len(node.name) = 1 /\ node.name[1] \in BannedModules
           THEN <<<<"Banned import from", node.name>>>> ELSE <<>>
      [] node.kind = "Call" ->
           IF node.name[1] \in BannedCalls
           THEN <<<<"Banned function call", node.name>>>> ELSE <<>>
      [] node.kind = "Attribute" ->
           IF node.name[1] \in BannedAttributes
           THEN <<<<"Banned attribute access", node.name>>>> ELSE <<>>

RECURSIVE ViolationsFirstOnly(_)
ViolationsFirstOnly(nodes) ==
    IF nodes = <<>> THEN <<>>
    ELSE IF VisitNode(Head(nodes)) # <<>> THEN VisitNode(Head(nodes))
    ELSE ViolationsFirstOnly(Tail(nodes))

RECURSIVE Violations(_)
Violations(nodes) ==
    IF nodes = <<>> THEN <<>>
    ELSE VisitNode(Head(nodes)) \o Violations(Tail(nodes))

SecurityViolation(msg) == [how |-> "raise", exc |-> "SecurityViolationException", msg |-> msg]

Passed == [how |-> "return", val |-> <<"None">>]

static_analysis_check(code) ==
    IF ~code.parses THEN SecurityViolation(<<"Syntax Error in code">>)
    ELSE IF Violations(code.nodes) # <<>>
         THEN SecurityViolation(<<"Security Violations Found", Violations(code.nodes)>>)
         ELSE Passed

(***************************************************************************)
(* validate_imports: ast.walk is breadth first, so the nodes are taken by  *)
(* depth, and in source order within one depth.                            *)
(***************************************************************************)
RECURSIVE AtDepth(_, _)
AtDepth(nodes, d) ==
    IF nodes = <<>> THEN <<>>
    ELSE (IF Head(nodes).depth = d THEN <<Head(nodes)>> ELSE <<>>) \o AtDepth(Tail(nodes), d)

RECURSIVE WalkFrom(_, _)
WalkFrom(nodes, d) ==
    IF d > MaxDepth THEN <<>> ELSE AtDepth(nodes, d) \o WalkFrom(nodes, d + 1)

AstWalkSourceOrder(nodes) == nodes

AstWalkTopLevelOnly(nodes) == AtDepth(nodes, 0)

AstWalk(nodes) == WalkFrom(nodes, 0)

DependencyError(pkg) == [ok |-> FALSE, status |-> "dependency_error", missing_lib |-> pkg]

DependencyOk == [ok |-> TRUE, status |-> "None", missing_lib |-> "None"]

RECURSIVE CheckImports(_)
CheckImports(walk) ==
    IF walk = <<>> THEN DependencyOk
    ELSE LET node == Head(walk) IN
         IF \/ /\ node.kind = "Import"
               /\ TopLevelPkg(node.name) \notin ALLOWED_LIBRARIES
            \/ /\ node.kind = "ImportFrom"
               /\ node.name # NoModule
               /\ TopLevelPkg(node.name) \notin ALLOWED_LIBRARIES
         THEN DependencyError(TopLevelPkg(node.name))
         ELSE CheckImports(Tail(walk))

validate_imports_unguarded(code) ==
    IF ~code.parses THEN [ok |-> FALSE, status |-> "SyntaxError", missing_lib |-> "None"]
    ELSE CheckImports(AstWalk(code.nodes))

validate_imports(code) ==
    IF ~code.parses THEN DependencyError("syntax_error")
    ELSE CheckImports(AstWalk(code.nodes))

(***************************************************************************)
(* The remote model: one call answers a text, a response without text, or  *)
(* fails.                                                                  *)
(***************************************************************************)
OracleTexts ==
    {<<"SAFE">>, <<"BLOCK">>, <<" ", "block", "\n">>, <<"UN", "BLOCK", "ED">>, <<"safe">>}

RemoteError == [kind |-> "error"]

NoText == [kind |-> "no_text"]

TextReply(t) == [kind |-> "text", text |-> t]

OracleReplies == {TextReply(t) : t \in OracleTexts} \cup {RemoteError, NoText}

NotCalled == [kind |-> "not_called"]

(***************************************************************************)
(* ai_security_check (synchronous) and ai_security_check_async.            *)
(***************************************************************************)
ai_security_check_failclosed(api_key, reply) ==
    IF ~api_key THEN Passed
    ELSE IF reply.kind # "text" \/ Contains("BLOCK", Upper(Strip(reply.text)))
         THEN SecurityViolation(<<"AI Sentinel detected malicious intent.">>)
         ELSE Passed

ai_security_check_exact(api_key, reply) ==
    IF ~api_key THEN Passed
    ELSE IF reply.kind = "text" /\ Upper(Strip(reply.text)) = <<"BLOCK">>
         THEN SecurityViolation(<<"AI Sentinel detected malicious intent.">>)
         ELSE Passed

ai_security_check(api_key, reply) ==
    IF ~api_key THEN Passed
    ELSE IF reply.kind = "text" /\ Contains("BLOCK", Upper(Strip(reply.text)))
         THEN SecurityViolation(<<"AI Sentinel detected malicious intent.">>)
         ELSE Passed

ai_security_check_async_failclosed(api_key, reply) ==
    IF ~api_key THEN Passed
    ELSE IF reply.kind # "text" \/ Contains("BLOCK", Upper(Strip(reply.text)))
         THEN SecurityViolation(<<"AI Sentinel detected malicious intent.">>)
         ELSE Passed

ai_security_check_async(api_key, reply) ==
    IF ~api_key THEN Passed
    ELSE IF reply.kind = "text" /\ Contains("BLOCK", Upper(Strip(reply.text)))
         THEN SecurityViolation(<<"AI Sentinel detected malicious intent.">>)
         ELSE Passed

(***************************************************************************)
(* exec under the restricted builtins: __import__ is removed, so an import *)
(* statement at the top level of the code raises ImportError unless the    *)
(* code raised before reaching it.  Only Exception is caught around exec.  *)
(***************************************************************************)
Stdouts == {"", "hello world\n"}

HasTopLevelImport(code) ==
    \E i \in 1..Len(code.nodes) :
        code.nodes[i].kind \in {"Import", "ImportFrom"} /\ code.nodes[i].depth = 0

Behaviours(code) ==
    (IF "__import__" \in RemovedBuiltins /\ HasTopLevelImport(code)
     THEN {[kind |-> "ImportError"]}
     ELSE {[kind |-> "completes", stdout |-> s] : s \in Stdouts})
      \cup {[kind |-> "Exception"], [kind |-> "BaseException"]}

ExecResult(b) ==
    CASE b.kind = "completes" -> [how |-> "return", val |-> <<"stdout", b.stdout>>]
      [] b.kind = "ImportError" ->
           [how |-> "return", val |-> <<"Execution Error", "__import__ not found">>]
      [] b.kind = "Exception" -> [how |-> "return", val |-> <<"Execution Error", "raised">>]
      [] b.kind = "BaseException" -> [how |-> "raise", exc |-> "BaseException", msg |-> <<>>]

(***************************************************************************)
(* State.                                                                  *)
(***************************************************************************)
VARIABLES
    GEMINI_API_KEY,   \* whether the environment variable is set
    client,           \* whether AletheiaEngine.client was constructed
    sb_pc,            \* where the running run_in_sandbox call is
    sb_code,          \* its code_str
    sb_steps,         \* the steps the call has performed, in order
    sb_reply,         \* what the remote model answered the oracle call
    sb_out,           \* what the call returned or raised
    max_io_concurrency,  \* AsyncJobManager.__init__ parameter
    io_semaphore,     \* AsyncJobManager.io_semaphore
    job_state,        \* each I/O job: new, waiting, running, done
    job_out,          \* what each finished I/O job produced
    batch_n,          \* jobs 1..batch_n are one run_batched_io_jobs call's
    batch_pc,         \* where that call is
    batch_result,     \* what that call returned or raised
    d_pc,             \* each dispatch_optimization call: where it is
    d_code,           \* its code_str
    d_sec,            \* its security task
    d_sec_reply,      \* what the remote model answered the security task
    d_cls,            \* its classification task
    d_category,       \* what classify_code returned
    d_attempt,        \* attempts made by generate_jax_optimization
    d_invoked,        \* generation strategies invoked, in order
    d_result,         \* what the call returned
    d_cls_reply,      \* what the remote model answered the classification task
    d_gen_reply,      \* what the remote model answered the last generation call
    g_pc,             \* a direct call of the two gates: where it is
    g_code,           \* its code_str
    g_report,         \* what static_analysis_check returned or raised
    g_verdict,        \* what validate_imports returned
    r_pc,             \* a call of a function wrapped with a retry decorator: where it is
    r_policy,         \* which decorator wraps it
    r_op,             \* which function is wrapped
    r_log,            \* how each attempt so far ended, in order
    r_delay,          \* the pause before the next attempt, in seconds
    r_result,         \* what the wrapped call returned or raised
    max_cpu_workers,  \* AsyncJobManager.__init__ parameter
    cpu_state,        \* each CPU job: new, queued, running, done, refused
    pool_pc,          \* cpu_executor: open, shutting (shutdown called), closed
    br_pc,            \* the reproduce_paper call: where it is
    br_out            \* what it returned or raised

envVars == <<GEMINI_API_KEY, client>>

sbVars == <<sb_pc, sb_code, sb_steps, sb_reply, sb_out>>

ioVars == <<max_io_concurrency, io_semaphore, job_state, job_out, batch_n, batch_pc, batch_result>>

dVars ==
    <<d_pc, d_code, d_sec, d_sec_reply, d_cls, d_category, d_attempt, d_invoked, d_result,
      d_cls_reply, d_gen_reply>>

gateVars == <<g_pc, g_code, g_report, g_verdict>>

retryVars == <<r_pc, r_policy, r_op, r_log, r_delay, r_result>>

cpuVars == <<max_cpu_workers, cpu_state, pool_pc>>

brVars == <<br_pc, br_out>>

vars == <<envVars, sbVars, ioVars, dVars, gateVars, retryVars, cpuVars, brVars>>

NoResult == [how |-> "none"]

(***************************************************************************)
(* run_in_sandbox, step by step.                                           *)
(***************************************************************************)
SbAt(pc) ==
    /\ sb_pc = pc
    /\ sb_code = Unparseable
    /\ sb_steps = <<>>
    /\ sb_reply = NotCalled
    /\ sb_out = NoResult

SbCall ==
    /\ UNCHANGED <<envVars, ioVars, dVars, gateVars, retryVars, cpuVars, brVars>>
    /\ sb_pc = "idle"
    /\ \E code \in Sources : sb_code' = code
    /\ sb_pc' = "deps"
    /\ UNCHANGED <<sb_steps, sb_reply, sb_out>>

DepsStep(code) == validate_imports(code)

SbValidateImports ==
    /\ UNCHANGED <<envVars, ioVars, dVars, gateVars, retryVars, cpuVars, brVars>>
    /\ sb_pc = "deps"
    /\ sb_steps' = Append(sb_steps, "validate_imports")
    /\ LET v == DepsStep(sb_code) IN
         IF ~v.ok
         THEN /\ sb_out' = [how |-> "return", val |-> <<v.status, v.missing_lib>>]
              /\ sb_pc' = "done"
         ELSE /\ sb_pc' = "static"
              /\ UNCHANGED sb_out
    /\ UNCHANGED <<sb_code, sb_reply>>

StaticStepSkipped(code) == Passed

StaticStep(code) == static_analysis_check(code)

SbStaticAnalysis ==
    /\ UNCHANGED <<envVars, ioVars, dVars, gateVars, retryVars, cpuVars, brVars>>
    /\ sb_pc = "static"
    /\ sb_steps' = Append(sb_steps, "static_analysis_check")
    /\ LET r == StaticStep(sb_code) IN
         IF r.how = "raise"
         THEN /\ sb_out' = r
              /\ sb_pc' = "done"
         ELSE /\ sb_pc' = "oracle"
              /\ UNCHANGED sb_out
    /\ UNCHANGED <<sb_code, sb_reply>>

OracleStepIgnoresBlock(api_key, reply) == Passed

OracleStep(api_key, reply) == ai_security_check(api_key, reply)

SbAiSecurityCheck ==
    /\ UNCHANGED <<envVars, ioVars, dVars, gateVars, retryVars, cpuVars, brVars>>
    /\ sb_pc = "oracle"
    /\ sb_steps' = Append(sb_steps, "ai_security_check")
    /\ \E reply \in (IF GEMINI_API_KEY THEN OracleReplies ELSE {NotCalled}) :
         /\ sb_reply' = reply
         /\ LET r == OracleStep(GEMINI_API_KEY, reply) IN
              IF r.how = "raise"
              THEN /\ sb_out' = r
                   /\ sb_pc' = "done"
              ELSE /\ sb_pc' = "exec"
                   /\ UNCHANGED sb_out
    /\ UNCHANGED sb_code

SbExec ==
    /\ UNCHANGED <<envVars, ioVars, dVars, gateVars, retryVars, cpuVars, brVars>>
    /\ sb_pc = "exec"
    /\ sb_steps' = Append(sb_steps, "exec")
    /\ \E b \in Behaviours(sb_code) : sb_out' = ExecResult(b)
    /\ sb_pc' = "done"
    /\ UNCHANGED <<sb_code, sb_reply>>

SbNext ==
    \/ SbCall
    \/ SbValidateImports
    \/ SbStaticAnalysis
    \/ SbAiSecurityCheck
    \/ SbExec

(***************************************************************************)
(* asyncio.Semaphore as run_io_job uses it (async with self.io_semaphore): *)
(* value, the queue of waiting acquirers, and those of them already woken  *)
(* with a permit reserved but not yet resumed.                             *)
(***************************************************************************)
Jobs == 1..NumJobs

NewSemaphore(n) == [value |-> n, waiters |-> <<>>, woken |-> {}]

LockedNever(s) == FALSE

Locked(s) == s.value = 0 \/ s.waiters # <<>>

RECURSIVE FirstUnwoken(_, _)
FirstUnwoken(waiters, woken) ==
    IF waiters = <<>> THEN 0
    ELSE IF Head(waiters) \notin woken THEN Head(waiters)
    ELSE FirstUnwoken(Tail(waiters), woken)

WakeUpNextNever(s) == s

WakeUpNext(s) ==
    LET j == FirstUnwoken(s.waiters, s.woken) IN
      IF j = 0 THEN s
      ELSE [s EXCEPT !.value = s.value - 1, !.woken = s.woken \cup {j}]

Release(s) == WakeUpNext([s EXCEPT !.value = s.value + 1])

RECURSIVE Without(_, _)
Without(waiters, j) ==
    IF waiters = <<>> THEN <<>>
    ELSE IF Head(waiters) = j THEN Tail(waiters)
    ELSE <<Head(waiters)>> \o Without(Tail(waiters), j)

Enqueue(s, j) == [s EXCEPT !.waiters = Append(s.waiters, j)]

Resumed(s, j) ==
    LET t == [s EXCEPT !.waiters = Without(s.waiters, j), !.woken = s.woken \ {j}] IN
      IF t.value > 0 THEN WakeUpNext(t) ELSE t

CancelledWaiting(s, j) ==
    LET t == [s EXCEPT !.waiters = Without(s.waiters, j), !.woken = s.woken \ {j}] IN
      IF j \in s.woken THEN Release(t) ELSE t

ExitLeaky(s, outcome) == IF outcome = "ok" THEN Release(s) ELSE s

Exit(s, outcome) == Release(s)

(***************************************************************************)
(* AsyncJobManager: run_io_job and run_batched_io_jobs.                    *)
(***************************************************************************)
NoOutcome == <<"none", 0>>

IoAt(state, permits, batches) ==
    /\ max_io_concurrency \in permits
    /\ io_semaphore = NewSemaphore(max_io_concurrency)
    /\ job_state = [j \in Jobs |-> state]
    /\ job_out = [j \in Jobs |-> NoOutcome]
    /\ batch_n \in batches
    /\ batch_pc = IF state = "unused" THEN "unused" ELSE "none"
    /\ batch_result = NoResult

InBatch(j) == j <= batch_n

RunBatchedIoJobs ==
    /\ UNCHANGED <<envVars, sbVars, dVars, gateVars, retryVars, cpuVars, brVars>>
    /\ batch_pc = "none"
    /\ batch_pc' = "gathering"
    /\ UNCHANGED <<max_io_concurrency, io_semaphore, job_state, job_out, batch_n, batch_result>>

IoAcquire(j) ==
    /\ UNCHANGED <<envVars, sbVars, dVars, gateVars, retryVars, cpuVars, brVars>>
    /\ job_state[j] = "new"
    /\ InBatch(j) => batch_pc = "gathering"
    /\ IF ~Locked(io_semaphore)
       THEN /\ io_semaphore' = [io_semaphore EXCEPT !.value = io_semaphore.value - 1]
            /\ job_state' = [job_state EXCEPT ![j] = "running"]
       ELSE /\ io_semaphore' = Enqueue(io_semaphore, j)
            /\ job_state' = [job_state EXCEPT ![j] = "waiting"]
    /\ UNCHANGED <<max_io_concurrency, job_out, batch_n, batch_pc, batch_result>>

IoResume(j) ==
    /\ UNCHANGED <<envVars, sbVars, dVars, gateVars, retryVars, cpuVars, brVars>>
    /\ job_state[j] = "waiting"
    /\ j \in io_semaphore.woken
    /\ io_semaphore' = Resumed(io_semaphore, j)
    /\ job_state' = [job_state EXCEPT ![j] = "running"]
    /\ UNCHANGED <<max_io_concurrency, job_out, batch_n, batch_pc, batch_result>>

IoFinish(j, outcome) ==
    /\ UNCHANGED <<envVars, sbVars, dVars, gateVars, retryVars, cpuVars, brVars>>
    /\ job_state[j] = "running"
    /\ io_semaphore' = Exit(io_semaphore, outcome)
    /\ job_state' = [job_state EXCEPT ![j] = "done"]
    /\ job_out' = [job_out EXCEPT ![j] = <<outcome, j>>]
    /\ UNCHANGED <<max_io_concurrency, batch_n, batch_pc, batch_result>>

IoCancel(j) ==
    /\ UNCHANGED <<envVars, sbVars, dVars, gateVars, retryVars, cpuVars, brVars>>
    /\ ~InBatch(j)
    /\ job_state[j] \in {"waiting", "running"}
    /\ io_semaphore' = IF job_state[j] = "running"
                       THEN Exit(io_semaphore, "cancelled")
                       ELSE CancelledWaiting(io_semaphore, j)
    /\ job_state' = [job_state EXCEPT ![j] = "done"]
    /\ job_out' = [job_out EXCEPT ![j] = <<"cancelled", j>>]
    /\ UNCHANGED <<max_io_concurrency, batch_n, batch_pc, batch_result>>

GatherFailFast(n) ==
    \/ \A i \in 1..n : job_state[i] = "done"
    \/ \E i \in 1..n : job_out[i][1] = "err"

GatherComplete(n) == \A i \in 1..n : job_state[i] = "done"

GatherResults(n) == [how |-> "return", val |-> [i \in 1..n |-> job_out[i]]]

BatchReturn ==
    /\ UNCHANGED <<envVars, sbVars, dVars, gateVars, retryVars, cpuVars, brVars>>
    /\ batch_pc = "gathering"
    /\ GatherComplete(batch_n)
    /\ batch_result' = GatherResults(batch_n)
    /\ batch_pc' = "returned"
    /\ UNCHANGED <<max_io_concurrency, io_semaphore, job_state, job_out, batch_n>>

IoNext ==
    \/ RunBatchedIoJobs
    \/ \E j \in Jobs : IoAcquire(j)
    \/ \E j \in Jobs : IoResume(j)
    \/ \E j \in Jobs : \E outcome \in {"ok", "err"} : IoFinish(j, outcome)
    \/ \E j \in Jobs : IoCancel(j)
    \/ BatchReturn

(***************************************************************************)
(* AletheiaEngine.dispatch_optimization and the generation strategies.     *)
(* A call awaiting the remote model is in flight until the reply arrives.  *)
(***************************************************************************)
Dispatches == 1..NumDispatch

DispatchSources == SourcesUpTo(MaxDispatchNodes)

CleanSource == [parses |-> TRUE, nodes |-> <<>>]

CategoryTexts ==
    {<<"HEAVY_MATH">>, <<"SQL">>, <<"GENERAL_LOGIC">>, <<" ", "sql", "\n">>,
     <<"NO", "SQL">>, <<"OTHER">>}

ClassifyReplies == {TextReply(t) : t \in CategoryTexts} \cup {RemoteError, NoText}

GenerationReplies == {"compiles", "syntax_error", "remote_error"}

JaxAttempts == 2

classify_code(reply) ==
    IF reply.kind = "text" THEN Upper(Strip(reply.text)) ELSE <<"GENERAL_LOGIC">>

RouteWithoutSql(category) ==
    IF Contains("HEAVY_MATH", category) THEN "jax" ELSE "general"

Route(category) ==
    IF Contains("HEAVY_MATH", category) THEN "jax"
    ELSE IF Contains("SQL", category) THEN "sql"
    ELSE "general"

GeneratedCode(reply) == IF reply = "remote_error" THEN "error_comment" ELSE "generated"

Returned(val) == [how |-> "return", val |-> val]

Propagated == [how |-> "raise", method |-> "none", code |-> "Exception"]

generate_async_refactor_propagates(reply) ==
    IF reply = "remote_error" THEN [how |-> "raise", val |-> "Exception"]
    ELSE Returned(GeneratedCode(reply))

generate_async_refactor(reply) == Returned(GeneratedCode(reply))

optimize_sql(reply) == Returned(GeneratedCode(reply))

Result(method, code) == [how |-> "return", method |-> method, code |-> code]

NoClientResult == [how |-> "return", method |-> "none", code |-> "client_not_initialized"]

AbortResult == Result("error", "security_violation")

DAt(pcs, sources) ==
    /\ d_pc = pcs
    /\ \E code \in sources :
         d_code = [d \in Dispatches |-> IF pcs[d] = "unused" THEN CleanSource ELSE code]
    /\ d_sec = [d \in Dispatches |-> "none"]
    /\ d_sec_reply = [d \in Dispatches |-> NotCalled]
    /\ d_cls = [d \in Dispatches |-> "none"]
    /\ d_cls_reply = [d \in Dispatches |-> NotCalled]
    /\ d_category = [d \in Dispatches |-> <<>>]
    /\ d_attempt = [d \in Dispatches |-> 0]
    /\ d_invoked = [d \in Dispatches |-> <<>>]
    /\ d_gen_reply = [d \in Dispatches |-> "none"]
    /\ d_result = [d \in Dispatches |-> NoResult]

DStart(d) ==
    /\ UNCHANGED <<envVars, sbVars, ioVars, gateVars, retryVars, cpuVars, brVars>>
    /\ d_pc[d] = "idle"
    /\ IF ~client
       THEN /\ d_result' = [d_result EXCEPT ![d] = NoClientResult]
            /\ d_pc' = [d_pc EXCEPT ![d] = "done"]
            /\ UNCHANGED <<d_sec, d_cls>>
       ELSE /\ d_sec' = [d_sec EXCEPT ![d] = IF GEMINI_API_KEY THEN "calling" ELSE "passed"]
            /\ d_cls' = [d_cls EXCEPT ![d] = "calling"]
            /\ d_pc' = [d_pc EXCEPT ![d] = "await_both"]
            /\ UNCHANGED d_result
    /\ UNCHANGED <<d_code, d_sec_reply, d_cls_reply, d_category, d_attempt, d_invoked, d_gen_reply>>

DSecurityReply(d, reply) ==
    /\ UNCHANGED <<envVars, sbVars, ioVars, gateVars, retryVars, cpuVars, brVars>>
    /\ d_sec[d] = "calling"
    /\ d_sec_reply' = [d_sec_reply EXCEPT ![d] = reply]
    /\ d_sec' = [d_sec EXCEPT ![d] =
                   IF ai_security_check_async(GEMINI_API_KEY, reply).how = "raise"
                   THEN "raised" ELSE "passed"]
    /\ UNCHANGED <<d_pc, d_code, d_cls, d_cls_reply, d_category, d_attempt, d_invoked,
                   d_gen_reply, d_result>>

DClassifyReply(d, reply) ==
    /\ UNCHANGED <<envVars, sbVars, ioVars, gateVars, retryVars, cpuVars, brVars>>
    /\ d_cls[d] = "calling"
    /\ d_cls_reply' = [d_cls_reply EXCEPT ![d] = reply]
    /\ d_category' = [d_category EXCEPT ![d] = classify_code(reply)]
    /\ d_cls' = [d_cls EXCEPT ![d] = "done"]
    /\ UNCHANGED <<d_pc, d_code, d_sec, d_sec_reply, d_attempt, d_invoked, d_gen_reply, d_result>>

GatherRaises(sec) == sec = "raised"

GatherReturnsAny(sec, cls) == sec \in {"passed", "raised"} /\ cls = "done"

GatherReturnsEarly(sec, cls) == sec = "passed"

GatherReturns(sec, cls) == sec = "passed" /\ cls = "done"

DAbort(d) ==
    /\ UNCHANGED <<envVars, sbVars, ioVars, gateVars, retryVars, cpuVars, brVars>>
    /\ d_pc[d] = "await_both"
    /\ GatherRaises(d_sec[d])
    /\ d_result' = [d_result EXCEPT ![d] = AbortResult]
    /\ d_pc' = [d_pc EXCEPT ![d] = "done"]
    /\ UNCHANGED <<d_code, d_sec, d_sec_reply, d_cls, d_cls_reply, d_category, d_attempt,
                   d_invoked, d_gen_reply>>

DRoute(d) ==
    /\ UNCHANGED <<envVars, sbVars, ioVars, gateVars, retryVars, cpuVars, brVars>>
    /\ d_pc[d] = "await_both"
    /\ GatherReturns(d_sec[d], d_cls[d])
    /\ LET r == Route(d_category[d]) IN
         /\ d_pc' = [d_pc EXCEPT ![d] = r]
         /\ d_invoked' = [d_invoked EXCEPT ![d] = Append(@, r)]
         /\ d_attempt' = [d_attempt EXCEPT ![d] = IF r = "jax" THEN 1 ELSE 0]
    /\ UNCHANGED <<d_code, d_sec, d_sec_reply, d_cls, d_cls_reply, d_category, d_gen_reply,
                   d_result>>

DJaxReply(d, reply) ==
    /\ UNCHANGED <<envVars, sbVars, ioVars, gateVars, retryVars, cpuVars, brVars>>
    /\ d_pc[d] = "jax"
    /\ d_gen_reply' = [d_gen_reply EXCEPT ![d] = reply]
    /\ IF reply = "compiles"
       THEN /\ d_result' = [d_result EXCEPT ![d] = Result("jax", "generated")]
            /\ d_pc' = [d_pc EXCEPT ![d] = "done"]
            /\ UNCHANGED <<d_attempt, d_invoked>>
       ELSE IF d_attempt[d] < JaxAttempts
       THEN /\ d_attempt' = [d_attempt EXCEPT ![d] = @ + 1]
            /\ UNCHANGED <<d_pc, d_invoked, d_result>>
       ELSE /\ d_pc' = [d_pc EXCEPT ![d] = "jax_fallback"]
            /\ d_invoked' = [d_invoked EXCEPT ![d] = Append(@, "general")]
            /\ UNCHANGED <<d_attempt, d_result>>
    /\ UNCHANGED <<d_code, d_sec, d_sec_reply, d_cls, d_cls_reply, d_category>>

DJaxFallbackReply(d, reply) ==
    /\ UNCHANGED <<envVars, sbVars, ioVars, gateVars, retryVars, cpuVars, brVars>>
    /\ d_pc[d] = "jax_fallback"
    /\ d_gen_reply' = [d_gen_reply EXCEPT ![d] = reply]
    /\ IF generate_async_refactor(reply).how = "raise"
       THEN /\ d_result' = [d_result EXCEPT ![d] = Propagated]
            /\ d_pc' = [d_pc EXCEPT ![d] = "done"]
            /\ UNCHANGED d_invoked
       ELSE /\ d_pc' = [d_pc EXCEPT ![d] = "general"]
            /\ d_invoked' = [d_invoked EXCEPT ![d] = Append(@, "general")]
            /\ UNCHANGED d_result
    /\ UNCHANGED <<d_code, d_sec, d_sec_reply, d_cls, d_cls_reply, d_category, d_attempt>>

DSqlReply(d, reply) ==
    /\ UNCHANGED <<envVars, sbVars, ioVars, gateVars, retryVars, cpuVars, brVars>>
    /\ d_pc[d] = "sql"
    /\ d_gen_reply' = [d_gen_reply EXCEPT ![d] = reply]
    /\ LET g == optimize_sql(reply) IN
         d_result' = [d_result EXCEPT ![d] =
                        IF g.how = "raise" THEN Propagated ELSE Result("sql_audit", g.val)]
    /\ d_pc' = [d_pc EXCEPT ![d] = "done"]
    /\ UNCHANGED <<d_code, d_sec, d_sec_reply, d_cls, d_cls_reply, d_category, d_attempt,
                   d_invoked>>

DGeneralReply(d, reply) ==
    /\ UNCHANGED <<envVars, sbVars, ioVars, gateVars, retryVars, cpuVars, brVars>>
    /\ d_pc[d] = "general"
    /\ d_gen_reply' = [d_gen_reply EXCEPT ![d] = reply]
    /\ LET g == generate_async_refactor(reply) IN
         d_result' = [d_result EXCEPT ![d] =
                        IF g.how = "raise" THEN Propagated
                        ELSE Result("complexity_reducer", g.val)]
    /\ d_pc' = [d_pc EXCEPT ![d] = "done"]
    /\ UNCHANGED <<d_code, d_sec, d_sec_reply, d_cls, d_cls_reply, d_category, d_attempt,
                   d_invoked>>

DNext ==
    \/ \E d \in Dispatches : DStart(d)
    \/ \E d \in Dispatches : \E reply \in OracleReplies : DSecurityReply(d, reply)
    \/ \E d \in Dispatches : \E reply \in ClassifyReplies : DClassifyReply(d, reply)
    \/ \E d \in Dispatches : DAbort(d)
    \/ \E d \in Dispatches : DRoute(d)
    \/ \E d \in Dispatches : \E reply \in GenerationReplies : DJaxReply(d, reply)
    \/ \E d \in Dispatches : \E reply \in GenerationReplies : DJaxFallbackReply(d, reply)
    \/ \E d \in Dispatches : \E reply \in GenerationReplies : DSqlReply(d, reply)
    \/ \E d \in Dispatches : \E reply \in GenerationReplies : DGeneralReply(d, reply)

OutboundCalls(d) ==
    (IF d_sec[d] = "calling" THEN 1 ELSE 0)
      + (IF d_cls[d] = "calling" THEN 1 ELSE 0)
      + (IF d_pc[d] \in {"jax", "jax_fallback", "sql", "general"} THEN 1 ELSE 0)

RECURSIVE SumOutbound(_)
SumOutbound(n) == IF n = 0 THEN 0 ELSE OutboundCalls(n) + SumOutbound(n - 1)

OutboundInFlight == SumOutbound(NumDispatch)

(***************************************************************************)
(* The two gates called on their own, as the callers outside run_in_sandbox *)
(* and the tests call them.                                                *)
(***************************************************************************)
GateAt(pc) ==
    /\ g_pc = pc
    /\ g_code = Unparseable
    /\ g_report = NoResult
    /\ g_verdict = NoResult

GateSubmit ==
    /\ UNCHANGED <<envVars, sbVars, ioVars, dVars, retryVars, cpuVars, brVars>>
    /\ g_pc = "idle"
    /\ \E code \in GateSources : g_code' = code
    /\ g_pc' = "submitted"
    /\ UNCHANGED <<g_report, g_verdict>>

CallStaticAnalysisCheck ==
    /\ UNCHANGED <<envVars, sbVars, ioVars, dVars, retryVars, cpuVars, brVars>>
    /\ g_pc = "submitted"
    /\ g_report = NoResult
    /\ g_report' = static_analysis_check(g_code)
    /\ UNCHANGED <<g_pc, g_code, g_verdict>>

CallValidateImports ==
    /\ UNCHANGED <<envVars, sbVars, ioVars, dVars, retryVars, cpuVars, brVars>>
    /\ g_pc = "submitted"
    /\ g_verdict = NoResult
    /\ g_verdict' = validate_imports(g_code)
    /\ UNCHANGED <<g_pc, g_code, g_report>>

GateNext ==
    \/ GateSubmit
    \/ CallStaticAnalysisCheck
    \/ CallValidateImports

(***************************************************************************)
(* The retry decorators: retry_api_call (core/async_utils.py, built on      *)
(* tenacity) and retry_with_backoff (core/utils.py), around an operation    *)
(* that lets its errors out, and retry_api_call around                      *)
(* VeritasAuditor.verify_claim_cove, whose body catches them.               *)
(***************************************************************************)
StopAfterAttempt == 10

WaitMin == 2

WaitMax == 60

RetriesDefault == 3

BackoffInSeconds == 1

RECURSIVE Pow2(_)
Pow2(n) == IF n = 0 THEN 1 ELSE 2 * Pow2(n - 1)

Min2(a, b) == IF a <= b THEN a ELSE b

Max2(a, b) == IF a >= b THEN a ELSE b

Wrapped == {<<"retry_api_call", "operation">>, <<"retry_with_backoff", "operation">>,
            <<"retry_api_call", "verify_claim_cove">>}

ExceptionKinds == {"transient", "permanent"}

CallOutcomes == {"ok", "transient", "permanent"}

Ended(how, what, remote) == [how |-> how, what |-> what, remote |-> remote, at |-> 0]

safe_generate_content(primary, fallback) ==
    IF primary = "ok" THEN [how |-> "return", what |-> "response"]
    ELSE IF primary = "transient"
         THEN IF fallback = "ok" THEN [how |-> "return", what |-> "response"]
              ELSE [how |-> "raise", what |-> fallback]
         ELSE [how |-> "raise", what |-> primary]

verify_claim_cove(has_client, primary, fallback, is_json) ==
    IF ~has_client THEN Ended("return", "not_initialized", <<>>)
    ELSE LET g == safe_generate_content(primary, fallback) IN
           IF g.how = "raise" \/ ~is_json THEN Ended("return", "ERROR", <<primary, fallback>>)
           ELSE Ended("return", "verdict", <<primary, fallback>>)

Operation(outcome) ==
    IF outcome = "ok" THEN Ended("return", "value", <<outcome>>)
    ELSE Ended("raise", outcome, <<outcome>>)

Attempts(op, has_client) ==
    IF op = "operation"
    THEN {Operation(o) : o \in CallOutcomes \cup {"BaseException"}}
    ELSE {verify_claim_cove(has_client, c[1], c[2], c[3]) :
            c \in CallOutcomes \X CallOutcomes \X BOOLEAN}

IsRetried(policy, ended) == ended.how = "raise" /\ ended.what \in ExceptionKinds

MaxAttemptsOffByOne(policy) ==
    IF policy = "retry_api_call" THEN StopAfterAttempt + 1 ELSE RetriesDefault + 2

MaxAttempts(policy) ==
    IF policy = "retry_api_call" THEN StopAfterAttempt ELSE RetriesDefault + 1

Wait(policy, attempt_number) ==
    IF policy = "retry_api_call"
    THEN Max2(Max2(0, WaitMin), Min2(Pow2(attempt_number - 1), WaitMax))
    ELSE BackoffInSeconds * Pow2(attempt_number - 1)

RetryAt(pc) ==
    /\ r_pc = pc
    /\ r_policy = "none"
    /\ r_op = "none"
    /\ r_log = <<>>
    /\ r_delay = 0
    /\ r_result = NoResult

RetryCall ==
    /\ UNCHANGED <<envVars, sbVars, ioVars, dVars, gateVars, cpuVars, brVars>>
    /\ r_pc = "idle"
    /\ \E w \in Wrapped : r_policy' = w[1] /\ r_op' = w[2]
    /\ r_pc' = "attempting"
    /\ UNCHANGED <<r_log, r_delay, r_result>>

RetryAttempt ==
    /\ UNCHANGED <<envVars, sbVars, ioVars, dVars, gateVars, cpuVars, brVars>>
    /\ r_pc = "attempting"
    /\ \E e \in Attempts(r_op, client) :
         LET ended == [e EXCEPT !.at = Len(r_log) + 1] IN
           /\ r_log' = Append(r_log, ended)
           /\ IF IsRetried(r_policy, ended) /\ ended.at < MaxAttempts(r_policy)
              THEN /\ r_delay' = Wait(r_policy, ended.at)
                   /\ r_pc' = "sleeping"
                   /\ UNCHANGED r_result
              ELSE /\ r_result' = ended
                   /\ r_pc' = "done"
                   /\ UNCHANGED r_delay
    /\ UNCHANGED <<r_policy, r_op>>

RetryWake ==
    /\ UNCHANGED <<envVars, sbVars, ioVars, dVars, gateVars, cpuVars, brVars>>
    /\ r_pc = "sleeping"
    /\ r_pc' = "attempting"
    /\ UNCHANGED <<r_policy, r_op, r_log, r_delay, r_result>>

RetryNext ==
    \/ RetryCall
    \/ RetryAttempt
    \/ RetryWake

(***************************************************************************)
(* AsyncJobManager: run_cpu_job and shutdown on the ProcessPoolExecutor.    *)
(* A submitted call is queued until a worker process is free; after         *)
(* shutdown was called the executor refuses new calls, still runs the       *)
(* queued ones, and shutdown(wait=True) blocks until the workers are idle.  *)
(***************************************************************************)
CpuJobs == 1..NumCpuJobs

ShutdownWaitFalse == FALSE

ShutdownWait == TRUE

CpuAt(state, pool, workers) ==
    /\ max_cpu_workers \in workers
    /\ cpu_state = [j \in CpuJobs |-> state]
    /\ pool_pc = pool

CpuBusy == {j \in CpuJobs : cpu_state[j] = "running"}

CpuPending == {j \in CpuJobs : cpu_state[j] \in {"queued", "running"}}

RunCpuJob(j) ==
    /\ UNCHANGED <<envVars, sbVars, ioVars, dVars, gateVars, retryVars, brVars>>
    /\ cpu_state[j] = "new"
    /\ cpu_state' = [cpu_state EXCEPT ![j] = IF pool_pc = "open" THEN "queued" ELSE "refused"]
    /\ UNCHANGED <<max_cpu_workers, pool_pc>>

CpuStart(j) ==
    /\ UNCHANGED <<envVars, sbVars, ioVars, dVars, gateVars, retryVars, brVars>>
    /\ cpu_state[j] = "queued"
    /\ Cardinality(CpuBusy) < max_cpu_workers
    /\ cpu_state' = [cpu_state EXCEPT ![j] = "running"]
    /\ UNCHANGED <<max_cpu_workers, pool_pc>>

CpuFinish(j) ==
    /\ UNCHANGED <<envVars, sbVars, ioVars, dVars, gateVars, retryVars, brVars>>
    /\ cpu_state[j] = "running"
    /\ cpu_state' = [cpu_state EXCEPT ![j] = "done"]
    /\ UNCHANGED <<max_cpu_workers, pool_pc>>

Shutdown ==
    /\ UNCHANGED <<envVars, sbVars, ioVars, dVars, gateVars, retryVars, brVars>>
    /\ pool_pc = "open"
    /\ pool_pc' = "shutting"
    /\ UNCHANGED <<max_cpu_workers, cpu_state>>

ShutdownReturn ==
    /\ UNCHANGED <<envVars, sbVars, ioVars, dVars, gateVars, retryVars, brVars>>
    /\ pool_pc = "shutting"
    /\ ShutdownWait => CpuPending = {}
    /\ pool_pc' = "closed"
    /\ UNCHANGED <<max_cpu_workers, cpu_state>>

CpuNext ==
    \/ \E j \in CpuJobs : RunCpuJob(j)
    \/ \E j \in CpuJobs : CpuStart(j)
    \/ \E j \in CpuJobs : CpuFinish(j)
    \/ Shutdown
    \/ ShutdownReturn

(***************************************************************************)
(* BridgeEngine.reproduce_paper: asks the remote model for a script, runs   *)
(* it with run_in_sandbox and derives a status from the returned string.    *)
(***************************************************************************)
ResultText(out) ==
    CASE out.val[1] = "dependency_error" ->
           <<"dependency_error", out.val[2]>> \o
             (IF out.val[2] = "syntax_error"
              THEN <<"Syntax ", "Error", ": Unable to parse code for import validation.">>
              ELSE <<"Library '", out.val[2], "' is not available in the Demo Environment.">>)
      [] out.val[1] = "stdout" -> IF out.val[2] = "" THEN <<>> ELSE <<out.val[2]>>
      [] out.val[1] = "Execution Error" -> <<"Execution ", "Error", ": ", out.val[2]>>

Status(execution_result) ==
    IF execution_result # <<>>
    THEN IF Contains("Error", execution_result)
         THEN "Failed (Runtime Error)" ELSE "Executed Successfully"
    ELSE "Failed (No Output)"

Report(status) == [how |-> "return", status |-> status]

ErrorReport == [how |-> "return", status |-> "error"]

BrAt(pc) ==
    /\ br_pc = pc
    /\ br_out = NoResult

BReproducePaper ==
    /\ UNCHANGED <<envVars, sbVars, ioVars, dVars, gateVars, retryVars, cpuVars>>
    /\ br_pc = "idle"
    /\ IF ~client
       THEN br_out' = ErrorReport /\ br_pc' = "done"
       ELSE br_pc' = "generating" /\ UNCHANGED br_out

BGenerated ==
    /\ UNCHANGED <<envVars, ioVars, dVars, gateVars, retryVars, cpuVars>>
    /\ br_pc = "generating"
    /\ \E primary \in CallOutcomes, fallback \in CallOutcomes :
         IF safe_generate_content(primary, fallback).how = "raise"
         THEN /\ br_out' = ErrorReport
              /\ br_pc' = "done"
              /\ UNCHANGED sbVars
         ELSE /\ \E code \in Sources : sb_code' = code
              /\ sb_pc' = "deps"
              /\ br_pc' = "sandbox"
              /\ UNCHANGED <<sb_steps, sb_reply, sb_out, br_out>>

BReport ==
    /\ UNCHANGED <<envVars, sbVars, ioVars, dVars, gateVars, retryVars, cpuVars>>
    /\ br_pc = "sandbox"
    /\ sb_pc = "done"
    /\ br_out' = IF sb_out.how = "raise"
                 THEN IF sb_out.exc = "BaseException"
                      THEN [how |-> "raise", status |-> "none"]
                      ELSE ErrorReport
                 ELSE Report(Status(ResultText(sb_out)))
    /\ br_pc' = "done"

BridgeNext ==
    \/ BReproducePaper
    \/ BGenerated
    \/ SbValidateImports
    \/ SbStaticAnalysis
    \/ SbAiSecurityCheck
    \/ SbExec
    \/ BReport

(***************************************************************************)
(* Specifications: one entry point driven at a time.                       *)
(***************************************************************************)
EnvAny(withClient) ==
    /\ GEMINI_API_KEY \in BOOLEAN
    /\ client \in withClient
    /\ GEMINI_API_KEY => client

InitSandbox ==
    /\ EnvAny({GEMINI_API_KEY})
    /\ SbAt("idle")
    /\ IoAt("unused", {1}, {0})
    /\ DAt([d \in Dispatches |-> "unused"], {CleanSource})
    /\ GateAt("unused")
    /\ RetryAt("unused")
    /\ CpuAt("unused", "unused", {1})
    /\ BrAt("unused")

SpecSandbox == InitSandbox /\ [][SbNext]_vars

InitIO ==
    /\ EnvAny({FALSE})
    /\ SbAt("unused")
    /\ IoAt("new", 1..MaxPermits, 0..NumJobs)
    /\ DAt([d \in Dispatches |-> "unused"], {CleanSource})
    /\ GateAt("unused")
    /\ RetryAt("unused")
    /\ CpuAt("unused", "unused", {1})
    /\ BrAt("unused")

SpecIO == InitIO /\ [][IoNext]_vars

InitDispatch ==
    /\ EnvAny(BOOLEAN)
    /\ SbAt("unused")
    /\ IoAt("unused", {1}, {0})
    /\ DAt([d \in Dispatches |-> IF d = 1 THEN "idle" ELSE "unused"], DispatchSources)
    /\ GateAt("unused")
    /\ RetryAt("unused")
    /\ CpuAt("unused", "unused", {1})
    /\ BrAt("unused")

SpecDispatch == InitDispatch /\ [][DNext]_vars

InitFanout ==
    /\ EnvAny({TRUE})
    /\ SbAt("unused")
    /\ IoAt("unused", {MaxPermits}, {0})
    /\ DAt([d \in Dispatches |-> "idle"], {CleanSource})
    /\ GateAt("unused")
    /\ RetryAt("unused")
    /\ CpuAt("unused", "unused", {1})
    /\ BrAt("unused")

SpecFanout == InitFanout /\ [][DNext]_vars

InitOracle ==
    /\ EnvAny(BOOLEAN)
    /\ IoAt("unused", {1}, {0})
    /\ GateAt("unused")
    /\ RetryAt("unused")
    /\ CpuAt("unused", "unused", {1})
    /\ BrAt("unused")
    /\ \/ SbAt("idle") /\ DAt([d \in Dispatches |-> "unused"], {CleanSource})
       \/ SbAt("unused") /\ DAt([d \in Dispatches |-> IF d = 1 THEN "idle" ELSE "unused"], DispatchSources)

NextOracle ==
    \/ SbCall
    \/ SbValidateImports
    \/ SbStaticAnalysis
    \/ SbAiSecurityCheck
    \/ SbExec
    \/ \E d \in Dispatches : DStart(d)
    \/ \E d \in Dispatches : \E reply \in OracleReplies : DSecurityReply(d, reply)
    \/ \E d \in Dispatches : \E reply \in ClassifyReplies : DClassifyReply(d, reply)
    \/ \E d \in Dispatches : DAbort(d)
    \/ \E d \in Dispatches : DRoute(d)
    \/ \E d \in Dispatches : \E reply \in GenerationReplies : DJaxReply(d, reply)
    \/ \E d \in Dispatches : \E reply \in GenerationReplies : DJaxFallbackReply(d, reply)
    \/ \E d \in Dispatches : \E reply \in GenerationReplies : DSqlReply(d, reply)
    \/ \E d \in Dispatches : \E reply \in GenerationReplies : DGeneralReply(d, reply)

SpecOracle == InitOracle /\ [][NextOracle]_vars

InitGates ==
    /\ EnvAny({FALSE})
    /\ SbAt("unused")
    /\ IoAt("unused", {1}, {0})
    /\ DAt([d \in Dispatches |-> "unused"], {CleanSource})
    /\ GateAt("idle")
    /\ RetryAt("unused")
    /\ CpuAt("unused", "unused", {1})
    /\ BrAt("unused")

SpecGates == InitGates /\ [][GateNext]_vars

InitRetry ==
    /\ EnvAny(BOOLEAN)
    /\ SbAt("unused")
    /\ IoAt("unused", {1}, {0})
    /\ DAt([d \in Dispatches |-> "unused"], {CleanSource})
    /\ GateAt("unused")
    /\ RetryAt("idle")
    /\ CpuAt("unused", "unused", {1})
    /\ BrAt("unused")

SpecRetry == InitRetry /\ [][RetryNext]_vars

InitCpu ==
    /\ EnvAny({FALSE})
    /\ SbAt("unused")
    /\ IoAt("unused", {1}, {0})
    /\ DAt([d \in Dispatches |-> "unused"], {CleanSource})
    /\ GateAt("unused")
    /\ RetryAt("unused")
    /\ CpuAt("new", "open", 1..MaxCpuWorkers)
    /\ BrAt("unused")

SpecCpu == InitCpu /\ [][CpuNext]_vars

InitBridge ==
    /\ EnvAny(BOOLEAN)
    /\ SbAt("idle")
    /\ IoAt("unused", {1}, {0})
    /\ DAt([d \in Dispatches |-> "unused"], {CleanSource})
    /\ GateAt("unused")
    /\ RetryAt("unused")
    /\ CpuAt("unused", "unused", {1})
    /\ BrAt("idle")

SpecBridge == InitBridge /\ [][BridgeNext]_vars

IoFairness ==
    /\ \A j \in Jobs : WF_vars(InBatch(j) /\ IoAcquire(j))
    /\ \A j \in Jobs : WF_vars(IoResume(j))
    /\ \A j \in Jobs : WF_vars(\E outcome \in {"ok", "err"} : IoFinish(j, outcome))
    /\ WF_vars(BatchReturn)

SpecIOFair == InitIO /\ [][IoNext]_vars /\ IoFairness

(***************************************************************************)
(* Properties.                                                             *)
(***************************************************************************)
Pipeline == <<"validate_imports", "static_analysis_check", "ai_security_check", "exec">>

Running == {j \in Jobs : job_state[j] = "running"}

HoldingPermit == Running \cup io_semaphore.woken

\* C1: run_in_sandbox performs its steps in the fixed order dependency gate,
\* static validator, oracle, exec, none skipped; each later step starts only
\* after the earlier one passed, so exec happens only for code that the
\* dependency gate allowed, the static validator accepted and the oracle did
\* not block.
C1_SequentialGates ==
    /\ Len(sb_steps) <= Len(Pipeline)
    /\ sb_steps = SubSeq(Pipeline, 1, Len(sb_steps))
    /\ Len(sb_steps) >= 2 => validate_imports(sb_code).ok
    /\ Len(sb_steps) >= 3 => static_analysis_check(sb_code).how = "return"
    /\ Len(sb_steps) >= 4 => ai_security_check(GEMINI_API_KEY, sb_reply).how = "return"

C1_Witness ==
    /\ sb_pc = "done"
    /\ sb_steps = Pipeline
    /\ sb_reply = TextReply(<<"SAFE">>)
    /\ Len(sb_code.nodes) = 2

C3_BoundedConcurrency ==
    /\ [](Cardinality(HoldingPermit) <= max_io_concurrency)
    /\ [][\A j \in Jobs :
            (job_state[j] # "running" /\ job_state'[j] = "running") =>
               \/ job_state[j] = "new" /\ io_semaphore.value > 0
               \/ job_state[j] = "waiting" /\ j \in io_semaphore.woken]_vars
    /\ [][\A j \in Jobs :
            (j \notin io_semaphore.woken /\ j \in io_semaphore'.woken) =>
               \E k \in Jobs \ {j} :
                  \/ k \in HoldingPermit /\ job_state'[k] = "done"
                  \/ /\ k \in io_semaphore.woken /\ job_state'[k] = "running"
                     /\ io_semaphore.value > 0]_vars

C3_Witness ==
    /\ max_io_concurrency = 2
    /\ Cardinality(Running) = 2
    /\ \E j \in Jobs : job_state[j] = "waiting" /\ j \notin io_semaphore.woken

\* C4: every permit is either free or held by exactly one job in flight, and
\* whenever no job is in flight all max_io_concurrency permits are free again,
\* whatever mix of returning, failing and cancelled jobs came before.
C4_NoPermitLeak ==
    /\ io_semaphore.value + Cardinality(HoldingPermit) = max_io_concurrency
    /\ (\A j \in Jobs : job_state[j] \in {"new", "done"}) =>
          io_semaphore.value = max_io_concurrency

C4_Witness ==
    /\ \A j \in Jobs : job_state[j] = "done"
    /\ \E j \in Jobs : job_out[j][1] = "err"
    /\ \E j \in Jobs : job_out[j][1] = "cancelled"
    /\ \E j \in Jobs : job_out[j][1] = "ok"
    /\ io_semaphore.value = max_io_concurrency

\* C5: when run_batched_io_jobs has returned, it returned (not raised) a
\* sequence as long as its input, all its jobs have finished, and position i
\* holds job i's own result or job i's own error.
C5_BatchResults ==
    batch_pc = "returned" =>
      /\ batch_result.how = "return"
      /\ Len(batch_result.val) = batch_n
      /\ \A i \in 1..batch_n :
           /\ job_state[i] = "done"
           /\ batch_result.val[i] = job_out[i]
           /\ batch_result.val[i][1] \in {"ok", "err"}
           /\ batch_result.val[i][2] = i

C5_Witness ==
    /\ batch_pc = "returned"
    /\ batch_n = 3
    /\ max_io_concurrency = 1
    /\ batch_result.val[1][1] = "err"
    /\ batch_result.val[2][1] = "ok"
    /\ batch_result.val[3][1] = "err"

Started(d) == d_pc[d] \notin {"unused", "idle"} /\ client

OracleUnavailable(reply) == reply.kind \in {"error", "no_text", "not_called"}

\* C6: once the security task of a dispatch has raised (the oracle answered
\* Block), the dispatch invokes no generation strategy and ends with the
\* structured error result carrying no generated code, whether or not the
\* classification task has finished and whatever it returned.
C6_BlockAborts ==
    \A d \in Dispatches :
      d_sec[d] = "raised" =>
        /\ d_invoked[d] = <<>>
        /\ d_pc[d] \in {"await_both", "done"}
        /\ d_pc[d] = "done" =>
             d_result[d].method = "error" /\ d_result[d].code = "security_violation"

C6_Witness ==
    /\ d_pc[1] = "done"
    /\ d_sec[1] = "raised"
    /\ d_cls[1] = "calling"
    /\ d_result[1].method = "error"

\* C7: a finished dispatch that was classified HEAVY_MATH and whose
\* vectorized rewrite failed on each of its two attempts returns a result
\* tagged as a fallback.
C7_FallbackTagged ==
    \A d \in Dispatches :
      (/\ d_pc[d] = "done"
       /\ Route(d_category[d]) = "jax"
       /\ d_attempt[d] = JaxAttempts
       /\ d_result[d].method # "jax") => d_result[d].method = "fallback"

\* C8: the remote calls that the dispatches have in flight never number more
\* than max_io_concurrency.
C8_OutboundBounded == OutboundInFlight <= max_io_concurrency

\* C9: a dispatch makes a remote call or invokes a generation strategy only
\* for code that the dependency gate allows and the static validator accepts.
C9_GatesBeforeRemote ==
    \A d \in Dispatches :
      (d_sec[d] # "none" \/ d_cls[d] # "none" \/ d_invoked[d] # <<>>) =>
         /\ validate_imports(d_code[d]).ok
         /\ static_analysis_check(d_code[d]).how = "return"

\* C10: when the oracle call fails, answers without text, or is not made
\* because no API key is configured, the oracle step raises nothing: a
\* run_in_sandbox call that reached the oracle goes on to exec, and a
\* dispatch is not aborted and, once finished, has invoked a strategy.
C10_FailOpen ==
    /\ (Len(sb_steps) >= 3 /\ OracleUnavailable(sb_reply)) =>
          /\ sb_pc \in {"exec", "done"}
          /\ sb_pc = "done" => sb_steps = Pipeline
    /\ \A d \in Dispatches :
         (Started(d) /\ d_sec[d] # "calling" /\ OracleUnavailable(d_sec_reply[d])) =>
            /\ d_sec[d] = "passed"
            /\ d_pc[d] = "done" => (d_result[d].method # "error" /\ d_invoked[d] # <<>>)

C10_Witness ==
    /\ sb_pc = "done"
    /\ GEMINI_API_KEY
    /\ sb_reply = RemoteError
    /\ sb_out.how = "return"
    /\ sb_out.val[1] = "stdout"

Normalised(reply) == Upper(Strip(reply.text))

OracleBlockedSandbox == sb_pc = "done" /\ Len(sb_steps) = 3

\* C11: both remote checks act on the exact label only. The oracle step
\* blocks exactly when the answered text (leading and trailing whitespace and
\* letter case aside) is the label BLOCK, and a dispatch routes to the jax
\* strategy exactly when the classifier's text is the label HEAVY_MATH, to the
\* sql strategy exactly when it is the label SQL, and to the general strategy
\* for every other text.
C11_ExactLabels ==
    /\ (Len(sb_steps) >= 3 /\ sb_reply.kind = "text") =>
          (OracleBlockedSandbox <=> Normalised(sb_reply) = <<"BLOCK">>)
    /\ \A d \in Dispatches :
         (d_sec[d] \in {"passed", "raised"} /\ d_sec_reply[d].kind = "text") =>
            (d_sec[d] = "raised" <=> Normalised(d_sec_reply[d]) = <<"BLOCK">>)
    /\ \A d \in Dispatches :
         (d_invoked[d] # <<>> /\ d_cls_reply[d].kind = "text") =>
            Head(d_invoked[d]) =
              (CASE Normalised(d_cls_reply[d]) = <<"HEAVY_MATH">> -> "jax"
                 [] Normalised(d_cls_reply[d]) = <<"SQL">> -> "sql"
                 [] OTHER -> "general")

\* C12: a finished dispatch has returned a value whatever remote calls
\* failed; a classification call that failed or answered without text gives
\* the category GENERAL_LOGIC and the general strategy; a generation call that
\* failed leaves the error text as the code of the returned result; and the
\* result is the error result exactly when the security task raised.
C12_AlwaysReturns ==
    \A d \in Dispatches :
      /\ d_pc[d] = "done" => d_result[d].how = "return"
      /\ (d_cls[d] = "done" /\ d_cls_reply[d].kind \in {"error", "no_text"}) =>
            /\ d_category[d] = <<"GENERAL_LOGIC">>
            /\ d_invoked[d] # <<>> => Head(d_invoked[d]) = "general"
      /\ (d_pc[d] = "done" /\ d_invoked[d] # <<>> /\ d_gen_reply[d] = "remote_error") =>
            /\ d_result[d].code = "error_comment"
            /\ d_result[d].method \in {"sql_audit", "complexity_reducer"}
      /\ (d_pc[d] = "done" /\ Started(d)) =>
            (d_result[d].method = "error" <=> d_sec[d] = "raised")

C12_Witness ==
    /\ d_pc[1] = "done"
    /\ d_sec_reply[1] = RemoteError
    /\ d_cls_reply[1] = RemoteError
    /\ d_gen_reply[1] = "remote_error"
    /\ d_result[1] = Result("complexity_reducer", "error_comment")

DenyListedNames == {<<m>> : m \in BannedModules}

\* C13: a finished run_in_sandbox call whose source holds `import M' for a
\* deny-listed module M has raised SecurityViolationException.
C13_DenyListedImportRaises ==
    (/\ sb_pc = "done"
     /\ \E i \in 1..Len(sb_code.nodes) :
          sb_code.nodes[i].kind = "Import" /\ sb_code.nodes[i].name \in DenyListedNames) =>
       (sb_out.how = "raise" /\ sb_out.exc = "SecurityViolationException")

ImportLabel(node) == IF node.kind = "Import" THEN "Banned import" ELSE "Banned import from"

Names(report, node) ==
    /\ report.how = "raise"
    /\ report.exc = "SecurityViolationException"
    /\ report.msg[1] = "Security Violations Found"
    /\ \E k \in 1..Len(report.msg[2]) : report.msg[2][k] = <<ImportLabel(node), node.name>>

\* C14: for a source that parses, static_analysis_check reports, for every
\* import statement naming a deny-listed module (`import M' or `from M import
\* ...', at any nesting depth and any position), a violation that names M.
C14_DenyListedImportReported ==
    (g_report # NoResult /\ g_code.parses) =>
       \A i \in 1..Len(g_code.nodes) :
          (/\ g_code.nodes[i].kind \in {"Import", "ImportFrom"}
           /\ g_code.nodes[i].name \in DenyListedNames) => Names(g_report, g_code.nodes[i])

C14_Witness ==
    /\ g_report # NoResult
    /\ Len(g_code.nodes) = 2
    /\ g_code.nodes[1] = [kind |-> "Call", name |-> <<"print">>, depth |-> 0]
    /\ g_code.nodes[2] = [kind |-> "ImportFrom", name |-> <<"pickle">>, depth |-> 1]
    /\ g_report.how = "raise"

OnlyImports(code, m) ==
    \A i \in 1..Len(code.nodes) :
       code.nodes[i].kind \in {"Import", "ImportFrom"} => code.nodes[i].name = <<m>>

Disallowed(node) ==
    /\ node.kind = "Import" \/ (node.kind = "ImportFrom" /\ node.name # NoModule)
    /\ Head(node.name) \notin ALLOWED_LIBRARIES

DisallowedAt(code) == {i \in 1..Len(code.nodes) : Disallowed(code.nodes[i])}

Least(S) == CHOOSE i \in S : \A j \in S : i <= j

\* C16 as stated: for a source that parses, validate_imports rejects with the
\* top-level name of the first disallowed import in the order of the source,
\* and allows when no import is disallowed.
C16_FirstInSourceOrder ==
    (g_verdict # NoResult /\ g_code.parses) =>
       IF DisallowedAt(g_code) = {} THEN g_verdict = DependencyOk
       ELSE g_verdict =
              DependencyError(Head(g_code.nodes[Least(DisallowedAt(g_code))].name))

\* C16 amended: for a source that parses, validate_imports rejects with the
\* top-level name of the disallowed import that comes first in ast.walk's
\* breadth-first order (the least nested one, and among equally nested ones
\* the first in the source), and allows when no import is disallowed.
C16_FirstInWalkOrder ==
    (g_verdict # NoResult /\ g_code.parses) =>
       IF DisallowedAt(g_code) = {} THEN g_verdict = DependencyOk
       ELSE \E i \in DisallowedAt(g_code) :
              /\ \A j \in DisallowedAt(g_code) :
                    \/ g_code.nodes[i].depth < g_code.nodes[j].depth
                    \/ g_code.nodes[i].depth = g_code.nodes[j].depth /\ i <= j
              /\ g_verdict = DependencyError(Head(g_code.nodes[i].name))

C16_Witness ==
    /\ g_code.parses
    /\ g_code.nodes = <<[kind |-> "Import", name |-> <<"requests">>, depth |-> 1],
                        [kind |-> "ImportFrom", name |-> <<"os", "path">>, depth |-> 0]>>
    /\ g_verdict = DependencyError("os")

BannedAt(code) == {i \in 1..Len(code.nodes) : VisitNode(code.nodes[i]) # <<>>}

\* C17: for a source that parses, the report of static_analysis_check holds
\* one violation for each banned construct of the source, in the order of the
\* source, and nothing is reported exactly when there is none.
C17_AllViolationsReported ==
    (g_report # NoResult /\ g_code.parses) =>
       IF BannedAt(g_code) = {} THEN g_report = Passed
       ELSE /\ g_report.how = "raise"
            /\ g_report.exc = "SecurityViolationException"
            /\ Len(g_report.msg[2]) = Cardinality(BannedAt(g_code))
            /\ \A i \in BannedAt(g_code) :
                  g_report.msg[2][Cardinality({j \in BannedAt(g_code) : j <= i})]
                    = VisitNode(g_code.nodes[i])[1]

C17_Witness ==
    /\ g_report # NoResult
    /\ g_code.parses
    /\ Len(g_code.nodes) = 2
    /\ g_code.nodes[1].kind = "Attribute"
    /\ g_code.nodes[2].kind = "Call"
    /\ Cardinality(BannedAt(g_code)) = 2

\* C18: for a source that does not parse, static_analysis_check raises
\* SecurityViolationException carrying the single syntax-error message (not
\* the parser's SyntaxError) and validate_imports returns the dependency
\* error whose missing_lib is "syntax_error".
C18_ParseFailureStructured ==
    (g_pc = "submitted" /\ ~g_code.parses) =>
       /\ g_report # NoResult =>
             /\ g_report.how = "raise"
             /\ g_report.exc = "SecurityViolationException"
             /\ g_report.msg = <<"Syntax Error in code">>
       /\ g_verdict # NoResult =>
             /\ ~g_verdict.ok
             /\ g_verdict.status = "dependency_error"
             /\ g_verdict.missing_lib = "syntax_error"

C18_Witness ==
    /\ g_pc = "submitted"
    /\ ~g_code.parses
    /\ g_report # NoResult
    /\ g_verdict # NoResult

\* C19: a finished run_in_sandbox call that executed the code has returned a
\* value, the captured standard output or the execution-error text, and has
\* let no exception of the executed code through.
C19_RuntimeExceptionsCaught ==
    (sb_pc = "done" /\ sb_steps = Pipeline) =>
       (sb_out.how = "return" /\ sb_out.val[1] \in {"stdout", "Execution Error"})

\* C20: the two oracle entry points decide alike: the oracle step of
\* run_in_sandbox raised exactly when ai_security_check_async raises for the
\* same key setting and the same remote outcome, and the security task of a
\* dispatch raised exactly when ai_security_check raises for them.
C20_SameVerdict ==
    /\ Len(sb_steps) >= 3 =>
          (OracleBlockedSandbox <=>
             ai_security_check_async(GEMINI_API_KEY, sb_reply).how = "raise")
    /\ \A d \in Dispatches :
         d_sec[d] \in {"passed", "raised"} =>
            (d_sec[d] = "raised" <=>
               ai_security_check(GEMINI_API_KEY, d_sec_reply[d]).how = "raise")

C20_Witness ==
    /\ OracleBlockedSandbox
    /\ sb_reply = TextReply(<<" ", "block", "\n">>)
    /\ sb_out.how = "raise"

MethodOf(strategy) ==
    CASE strategy = "jax" -> "jax"
      [] strategy = "sql" -> "sql_audit"
      [] strategy = "general" -> "complexity_reducer"

LimitOf(policy) == IF policy = "retry_api_call" THEN 10 ELSE 4

\* C22: a wrapped call makes at most the decorator's maximum number of
\* attempts (10 for retry_api_call, 1 + 3 retries for retry_with_backoff);
\* every attempt before the last one failed, so the first success is returned
\* at once; what the call returns or raises is what its last attempt returned
\* or raised; an error comes out only of the last permitted attempt (or at
\* once when it is not an Exception); and a call still in progress has
\* attempts left, so it ends when its attempts end.
C22_BoundedAttempts ==
    r_policy # "none" =>
       /\ Len(r_log) <= LimitOf(r_policy)
       /\ \A i \in 1..Len(r_log) :
             /\ r_log[i].at = i
             /\ i < Len(r_log) => (r_log[i].how = "raise" /\ r_log[i].what \in ExceptionKinds)
       /\ r_pc = "done" =>
             /\ r_log # <<>>
             /\ r_result = r_log[Len(r_log)]
             /\ (r_result.how = "raise" /\ r_result.what \in ExceptionKinds) =>
                   Len(r_log) = LimitOf(r_policy)
       /\ r_pc \in {"attempting", "sleeping"} => Len(r_log) < LimitOf(r_policy)

C22_Witness ==
    /\ r_pc = "done"
    /\ r_policy = "retry_api_call"
    /\ r_op = "operation"
    /\ Len(r_log) = 10
    /\ r_log[1].what = "transient"
    /\ r_result.how = "raise"
    /\ r_result.at = 10

\* C23: an attempt that failed with an error that is not transient is the
\* last attempt of the wrapped call, and the call has raised that error.
C23_OnlyTransientRetried ==
    \A i \in 1..Len(r_log) :
       (r_log[i].how = "raise" /\ r_log[i].what = "permanent") =>
          /\ i = Len(r_log)
          /\ r_pc = "done"
          /\ r_result = r_log[i]

\* C24: when shutdown has returned, no CPU job handed to run_cpu_job is
\* queued or running: each was completed, or was refused because it came
\* after shutdown had been called.
C24_ShutdownWaits ==
    pool_pc = "closed" =>
       \A j \in CpuJobs : cpu_state[j] \in {"new", "done", "refused"}

C24_Witness ==
    /\ pool_pc = "closed"
    /\ max_cpu_workers = 1
    /\ cpu_state[1] = "done"
    /\ cpu_state[2] = "done"
    /\ cpu_state[3] = "refused"

\* C25: a finished reproduce_paper call reports the status "Executed
\* Successfully" only when run_in_sandbox executed the code and returned its
\* captured standard output.
C25_SuccessOnlyWhenExecuted ==
    (br_pc = "done" /\ br_out.status = "Executed Successfully") =>
       (sb_steps = Pipeline /\ sb_out.how = "return" /\ sb_out.val[1] = "stdout")

C27_NoStarvation ==
    <>[](/\ \A j \in Jobs : job_state[j] \notin {"waiting", "running"}
         /\ batch_pc # "gathering")

C27_Witness ==
    /\ batch_pc = "returned"
    /\ batch_n = 4
    /\ max_io_concurrency = 1
    /\ \A j \in 1..4 : job_out[j][1] = "ok"

ImportsDenyListed(code) ==
    \E i \in 1..Len(code.nodes) :
       /\ code.nodes[i].kind \in {"Import", "ImportFrom"}
       /\ code.nodes[i].name # NoModule
       /\ Head(code.nodes[i].name) \in BannedModules

\* C28: a source that imports a deny-listed module or a submodule of one, at
\* any nesting depth, is never executed by run_in_sandbox: the call does not
\* reach exec and ends rejected by the dependency gate or the static check.
C28_DenyListedNeverExecuted ==
    (sb_pc \notin {"idle", "unused"} /\ ImportsDenyListed(sb_code)) =>
       /\ sb_pc # "exec"
       /\ \A i \in 1..Len(sb_steps) : sb_steps[i] # "exec"
       /\ sb_pc = "done" =>
             \/ sb_out.how = "return" /\ sb_out.val[1] = "dependency_error"
             \/ sb_out.how = "raise" /\ sb_out.exc = "SecurityViolationException"

C28_Witness ==
    /\ sb_pc = "done"
    /\ Len(sb_code.nodes) = 2
    /\ sb_code.nodes[1] = [kind |-> "Import", name |-> <<"numpy">>, depth |-> 0]
    /\ sb_code.nodes[2] = [kind |-> "ImportFrom", name |-> <<"os", "path">>, depth |-> 1]
    /\ sb_out = [how |-> "return", val |-> <<"dependency_error", "os">>]

\* C29: a run_in_sandbox call that executed a source (all of whose imports
\* are then allow-listed) does not end with the execution error of an import
\* statement that could not run.
C29_AllowListedImportsRun ==
    (sb_pc = "done" /\ sb_steps = Pipeline /\ sb_out.how = "return") =>
       sb_out.val # <<"Execution Error", "__import__ not found">>

\* C30: a finished verify_claim_cove call whose remote call failed with a
\* transient error in its first attempt (on the requested model and on the
\* model it falls back to) was attempted more than once.
C30_TransientRetried ==
    (/\ r_pc = "done"
     /\ r_op = "verify_claim_cove"
     /\ r_log[1].remote = <<"transient", "transient">>) => Len(r_log) >= 2

=============================================================================
